---------------------------- MODULE Spec2Model ----------------------------
(***************************************************************************)
(* A model of cdcr_inmate_scraper.py: the CDCRInmateScraper object (its    *)
(* results list and its construction-time timestamp), the batch collector  *)
(* search_multiple_cdcr_numbers, and the three exporters with              *)
(* print_summary.                                                          *)
(*                                                                         *)
(* Python values are tagged records: None, str (a sequence of one-         *)
(* character strings), int, dict (a function from key texts to values);    *)
(* a Python list is a sequence.  JSON text is a sequence of characters,    *)
(* written by JsonDumps and read by JsonLoads.  A CSV file is its header   *)
(* and its rows, each row the sequence of cell texts csv.DictWriter hands  *)
(* to the writer (quoting of a cell is below this level).                  *)
(***************************************************************************)
EXTENDS Integers, Sequences, FiniteSets, TLC

VARIABLES
    clock,      \* the wall clock read by datetime.now(), in ticks
    timestamp,  \* self.timestamp
    results,    \* self.results
    run,        \* number of the current run (a batch starts one)
    runTs,      \* self.timestamp as it stood when the current run started
    files,      \* the files on disk: name -> whether this run or an earlier one wrote it last
    caller,     \* the record list the caller holds and may pass as `results`
    ret         \* the last call: operation, arguments, outcome, file content written

vars == <<clock, timestamp, results, run, runTs, files, caller, ret>>

---------------------------------------------------------------------------
(* Bounds of the model. *)

MaxClock == 2
TicksPerSecond == 2
MaxRuns == 2
MaxIds == 2
MaxRecords == 2

---------------------------------------------------------------------------
(* Python values. *)

PyNone == [t |-> "None"]
PyStr(s) == [t |-> "str", s |-> s]
PyInt(n) == [t |-> "int", n |-> n]
PyDict(d) == [t |-> "dict", d |-> d]
PyList(l) == [t |-> "list", l |-> l]

IsNone(v) == v.t = "None"
IsStr(v) == v.t = "str"
IsDict(v) == v.t = "dict"
IsList(v) == v.t = "list"

(* The texts of the keys. *)
K_cdcr_number == <<"c","d","c","r","_","n","u","m","b","e","r">>
K_name == <<"n","a","m","e">>
K_age == <<"a","g","e">>
K_admission_date == <<"a","d","m","i","s","s","i","o","n","_","d","a","t","e">>
K_current_location ==
    <<"c","u","r","r","e","n","t","_","l","o","c","a","t","i","o","n">>
K_commitment_county ==
    <<"c","o","m","m","i","t","m","e","n","t","_","c","o","u","n","t","y">>
K_parole_eligible_date ==
    <<"p","a","r","o","l","e","_","e","l","i","g","i","b","l","e","_","d","a","t","e">>
K_board_of_parole_hearings ==
    <<"b","o","a","r","d","_","o","f","_","p","a","r","o","l","e","_",
      "h","e","a","r","i","n","g","s">>
K_num_parole_hearings ==
    <<"n","u","m","_","p","a","r","o","l","e","_","h","e","a","r","i","n","g","s">>
K_inmate_name == <<"i","n","m","a","t","e","_","n","a","m","e">>
K_date == <<"d","a","t","e">>
K_action == <<"a","c","t","i","o","n">>
K_status == <<"s","t","a","t","u","s">>
K_outcome == <<"o","u","t","c","o","m","e">>

(* The six optional fields of a record, in the order of the dict literal. *)
OptionalFields ==
    <<K_name, K_age, K_admission_date, K_current_location,
      K_commitment_county, K_parole_eligible_date>>

HearingFields == <<K_date, K_action, K_status, K_outcome>>

(* A dict keeps its keys in insertion order: the order json.dump writes   *)
(* them in.  Every dict of the model takes its keys from this sequence.   *)
KeyOrder ==
    <<K_cdcr_number>> \o OptionalFields \o <<K_board_of_parole_hearings>>
      \o HearingFields

Range(s) == {s[i] : i \in 1..Len(s)}

---------------------------------------------------------------------------
(* json.dump(results, jsonfile, indent=2, ensure_ascii=False). *)

Quote == "\""
Backslash == "\\"
Newline == "\n"

Spaces(n) == [i \in 1..n |-> " "]

(* The line break and indentation before an item at nesting depth `level`. *)
JsonIndent(level) == <<Newline>> \o Spaces(2 * level)

(* The text of s inside a string literal: quote, backslash and line break *)
(* escaped, every other character as it is (s is escaped half by half).   *)
RECURSIVE JsonEscape(_)
JsonEscape(s) ==
    IF s = <<>> THEN <<>>
    ELSE IF Len(s) = 1 THEN
        IF s[1] = Quote THEN <<Backslash, Quote>>
        ELSE IF s[1] = Backslash THEN <<Backslash, Backslash>>
        ELSE IF s[1] = Newline THEN <<Backslash, "n">>
        ELSE s
    ELSE LET h == Len(s) \div 2
         IN  JsonEscape(SubSeq(s, 1, h)) \o JsonEscape(SubSeq(s, h + 1, Len(s)))

JsonStrMutant(s) == <<Quote>> \o s \o <<Quote>>

JsonStr(s) == <<Quote>> \o JsonEscape(s) \o <<Quote>>

RECURSIVE JsonDumps(_, _), JsonItems(_, _, _), JsonMembers(_, _, _)

(* The items of a non-empty list from the i-th on, each on its own line. *)
JsonItems(l, i, level) ==
    IF i > Len(l) THEN <<>>
    ELSE JsonIndent(level) \o JsonDumps(l[i], level)
           \o (IF i < Len(l) THEN <<",">> ELSE <<>>)
           \o JsonItems(l, i + 1, level)

(* The members of a non-empty dict d whose keys, in order, are ks. *)
JsonMembers(d, ks, level) ==
    IF ks = <<>> THEN <<>>
    ELSE JsonIndent(level) \o JsonStr(Head(ks)) \o <<":", " ">>
           \o JsonDumps(d[Head(ks)], level)
           \o (IF Len(ks) > 1 THEN <<",">> ELSE <<>>)
           \o JsonMembers(d, Tail(ks), level)

JsonDumps(v, level) ==
    IF IsNone(v) THEN <<"n","u","l","l">>
    ELSE IF IsStr(v) THEN JsonStr(v.s)
    ELSE IF IsDict(v) THEN
        LET ks == SelectSeq(KeyOrder, LAMBDA k : k \in DOMAIN v.d)
        IN  IF ks = <<>> THEN <<"{", "}">>
            ELSE <<"{">> \o JsonMembers(v.d, ks, level + 1)
                   \o JsonIndent(level) \o <<"}">>
    ELSE \* a list
        IF v.l = <<>> THEN <<"[", "]">>
        ELSE <<"[">> \o JsonItems(v.l, 1, level + 1)
               \o JsonIndent(level) \o <<"]">>

---------------------------------------------------------------------------
(* json.loads / json.load: a recursive-descent reading of the text.  A    *)
(* parse step answers [ok, val, pos]: whether a value was read, the value *)
(* and the position after it.                                             *)

JsonFail == [ok |-> FALSE, val |-> PyNone, pos |-> 0]
JsonOk(v, p) == [ok |-> TRUE, val |-> v, pos |-> p]

(* The first position from i on that holds no whitespace (Len(s) + 1     *)
(* when none does).                                                       *)
SkipWs(s, i) ==
    CHOOSE p \in i..(Len(s) + 1) :
        /\ \A q \in i..(p - 1) : s[q] \in {" ", Newline}
        /\ p = Len(s) + 1 \/ s[p] \notin {" ", Newline}

(* The number of backslashes that stand in a row right before position p, *)
(* none of them before position lo.                                       *)
BackslashRun(s, p, lo) ==
    CHOOSE k \in 0..(p - lo) :
        /\ \A m \in 1..k : s[p - m] = Backslash
        /\ k = p - lo \/ s[p - k - 1] # Backslash

(* Whether the character at p, in a literal whose content starts at lo,   *)
(* follows a backslash that starts an escape.                             *)
IsEscaped(s, p, lo) == BackslashRun(s, p, lo) % 2 = 1

(* Whether position p holds the quote that closes a literal whose content *)
(* starts at lo, when no earlier position does.                           *)
IsUnescapedQuote(s, p, lo) == s[p] = Quote /\ ~IsEscaped(s, p, lo)

(* Whether position q holds a backslash that starts an escape. *)
StartsEscape(s, q, lo) == s[q] = Backslash /\ ~IsEscaped(s, q, lo)

(* The positions lo..(end - 1) of a literal's content that hold a         *)
(* character of the string: all but the backslashes that start an escape. *)
KeptPositions(s, lo, end) ==
    SelectSeq([q \in 1..(end - lo) |-> lo + q - 1], LAMBDA q : ~StartsEscape(s, q, lo))

(* The closing quote of the literal whose content starts at i: the first  *)
(* unescaped quote from i on.                                             *)
ClosingQuote(s, i) ==
    CHOOSE p \in i..Len(s) :
        /\ IsUnescapedQuote(s, p, i)
        /\ \A q \in i..(p - 1) : s[q] # Quote \/ IsEscaped(s, q, i)

(* The characters at the kept positions, \n undone. *)
Unescaped(s, i, kept) ==
    [c \in 1..Len(kept) |->
        IF s[kept[c]] = "n" /\ IsEscaped(s, kept[c], i) THEN Newline ELSE s[kept[c]]]

(* The literal's content between i and its closing quote at end. *)
CharsUpTo(s, i, end) ==
    IF \E q \in i..(end - 1) :
           \/ s[q] = Newline
           \/ s[q] \notin {Quote, Backslash, "n"} /\ IsEscaped(s, q, i)
    THEN JsonFail
    ELSE JsonOk(Unescaped(s, i, KeptPositions(s, i, end)), end + 1)

(* The string literal whose content starts at position i (after the       *)
(* opening quote): its characters up to the closing quote, escapes        *)
(* undone.  It fails when no quote closes it, on a raw line break and on  *)
(* an escape other than \", \\ and \n.                                    *)
ParseChars(s, i) ==
    IF \A p \in i..Len(s) : ~IsUnescapedQuote(s, p, i) THEN JsonFail
    ELSE CharsUpTo(s, i, ClosingQuote(s, i))

IsLiteral(s, i, lit) ==
    /\ i + Len(lit) - 1 <= Len(s)
    /\ SubSeq(s, i, i + Len(lit) - 1) = lit

(* A dict from its (key, value) pairs: a repeated key keeps its last value. *)
DictOfPairs(ps) ==
    [k \in {ps[j][1] : j \in 1..Len(ps)} |->
        LET last == CHOOSE j \in 1..Len(ps) :
                        /\ ps[j][1] = k
                        /\ \A m \in (j + 1)..Len(ps) : ps[m][1] # k
        IN  ps[last][2]]

RECURSIVE ParseValue(_, _), ItemsAfter(_, _, _), ParseItems(_, _, _),
          ParseMember(_, _, _), MemberKey(_, _, _), MemberColon(_, _, _, _),
          MemberValue(_, _, _, _), MemberEnd(_, _, _)

(* After an item r of an array: its value joins acc, and the rest follows. *)
ItemsAfter(s, r, acc) ==
    IF r.ok THEN ParseItems(s, SkipWs(s, r.pos), Append(acc, r.val)) ELSE JsonFail

(* Between the items of an array: s[j] is "," or the closing "]". *)
ParseItems(s, j, acc) ==
    IF j > Len(s) THEN JsonFail
    ELSE IF s[j] = "]" THEN JsonOk(PyList(acc), j + 1)
    ELSE IF s[j] = "," THEN ItemsAfter(s, ParseValue(s, j + 1), acc)
    ELSE JsonFail

(* One "key": value member of an object, its key's quote at j. *)
ParseMember(s, j, acc) ==
    IF j > Len(s) \/ s[j] # Quote THEN JsonFail
    ELSE MemberKey(s, ParseChars(s, j + 1), acc)

MemberKey(s, k, acc) ==
    IF k.ok THEN MemberColon(s, k.val, SkipWs(s, k.pos), acc) ELSE JsonFail

MemberColon(s, key, c, acc) ==
    IF c > Len(s) \/ s[c] # ":" THEN JsonFail
    ELSE MemberValue(s, key, ParseValue(s, c + 1), acc)

MemberValue(s, key, r, acc) ==
    IF r.ok THEN MemberEnd(s, SkipWs(s, r.pos), Append(acc, <<key, r.val>>))
    ELSE JsonFail

(* After a member: s[e] is "," or the closing "}". *)
MemberEnd(s, e, acc) ==
    IF e > Len(s) THEN JsonFail
    ELSE IF s[e] = "}" THEN JsonOk(PyDict(DictOfPairs(acc)), e + 1)
    ELSE IF s[e] = "," THEN ParseMember(s, SkipWs(s, e + 1), acc)
    ELSE JsonFail

StrValue(r) == IF r.ok THEN JsonOk(PyStr(r.val), r.pos) ELSE JsonFail

(* An array whose first non-blank position after "[" is e. *)
ParseArray(s, e) ==
    IF e <= Len(s) /\ s[e] = "]" THEN JsonOk(PyList(<<>>), e + 1)
    ELSE ItemsAfter(s, ParseValue(s, e), <<>>)

(* An object whose first non-blank position after "{" is e. *)
ParseObject(s, e) ==
    IF e <= Len(s) /\ s[e] = "}" THEN JsonOk(PyDict(<<>>), e + 1)
    ELSE ParseMember(s, e, <<>>)

(* The value whose first character is at j. *)
ParseValueAt(s, j) ==
    IF j > Len(s) THEN JsonFail
    ELSE IF s[j] = "n" THEN
        IF IsLiteral(s, j, <<"n","u","l","l">>) THEN JsonOk(PyNone, j + 4) ELSE JsonFail
    ELSE IF s[j] = Quote THEN StrValue(ParseChars(s, j + 1))
    ELSE IF s[j] = "[" THEN ParseArray(s, SkipWs(s, j + 1))
    ELSE IF s[j] = "{" THEN ParseObject(s, SkipWs(s, j + 1))
    ELSE JsonFail

ParseValue(s, i) == ParseValueAt(s, SkipWs(s, i))

(* The value read from the whole text, when only blanks follow it. *)
WholeText(s, r) == IF r.ok /\ SkipWs(s, r.pos) > Len(s) THEN r ELSE JsonFail

(* json.loads(text): the value, or a failure (json.JSONDecodeError) when  *)
(* no value is read or text follows it.                                   *)
JsonLoads(s) == WholeText(s, ParseValue(s, 1))

---------------------------------------------------------------------------
(* csv.DictWriter: the cell texts of one row. *)

Digits == <<"0","1","2","3","4","5","6","7","8","9">>

(* str(n) of a non-negative int. *)
RECURSIVE IntText(_)
IntText(n) ==
    IF n < 10 THEN <<Digits[n + 1]>>
    ELSE Append(IntText(n \div 10), Digits[(n % 10) + 1])

(* The writer's text of a field: None is written as the empty text, a     *)
(* str as it is, an int as str() of it.                                   *)
CsvCell(v) ==
    IF IsNone(v) THEN <<>>
    ELSE IF IsStr(v) THEN v.s
    ELSE IntText(v.n)

(* DictWriter.writerow: the row dict's values in the order of fieldnames. *)
CsvRow(fieldnames, rowdict) ==
    [c \in 1..Len(fieldnames) |-> CsvCell(rowdict[fieldnames[c]])]

CsvFile(fieldnames, rows) == [kind |-> "csv", header |-> fieldnames, rows |-> rows]
JsonFile(text) == [kind |-> "json", text |-> text]
NoFile == [kind |-> "none"]

---------------------------------------------------------------------------
(* The scraper. *)

(* datetime.now().strftime("%Y%m%d_%H%M%S"): the clock cut to the second. *)
Strftime(t) == t \div TicksPerSecond

(* A filename argument left out. *)
NoName == <<>>

DefaultCsvName(ts) == <<"cdcr_inmates_", ts, ".csv">>
DefaultJsonName(ts) == <<"cdcr_inmates_", ts, ".json">>
DefaultHearingsName(ts) == <<"cdcr_parole_hearings_", ts, ".csv">>

IsDefaultName(f) == Len(f) = 3

ThisRun == "this run"
EarlierRun == "an earlier run"

NoCall ==
    [op |-> "none", status |-> "return", name |-> NoName,
     ids |-> <<>>, list |-> PyList(<<>>), after |-> PyList(<<>>),
     written |-> NoFile]

SearchCdcrNumberMutant(cdcr_number) ==
    PyDict([k \in Range(KeyOrder) \ Range(HearingFields) |->
              IF k = K_board_of_parole_hearings THEN PyList(<<>>) ELSE PyNone])

(* search_cdcr_number: the record it returns.  The page-driver steps are  *)
(* comments in the source, so every optional field stays None and the     *)
(* hearings list stays empty.                                             *)
SearchCdcrNumber(cdcr_number) ==
    PyDict([k \in Range(KeyOrder) \ Range(HearingFields) |->
              IF k = K_cdcr_number THEN cdcr_number
              ELSE IF k = K_board_of_parole_hearings THEN PyList(<<>>)
              ELSE PyNone])

(* The loop of search_multiple_cdcr_numbers from the i-th identifier on:  *)
(* acc is the local list `results`, clk the clock.  failAt is the index   *)
(* of the first identifier whose call of search_cdcr_number raises (0:    *)
(* every call returns); the loop has no handler, so a raise leaves it at  *)
(* once.                                                                  *)
RECURSIVE SearchLoop(_, _, _, _, _)
SearchLoop(cdcr_numbers, failAt, i, acc, clk) ==
    IF i > Len(cdcr_numbers) THEN [status |-> "return", list |-> acc, clk |-> clk]
    ELSE IF i = failAt THEN [status |-> "raise", list |-> acc, clk |-> clk]
    ELSE SearchLoop(cdcr_numbers, failAt, i + 1,
                    Append(acc, SearchCdcrNumber(cdcr_numbers[i])),
                    IF i < Len(cdcr_numbers) THEN clk + TicksPerSecond ELSE clk)

---------------------------------------------------------------------------
(* The exporters' loops. *)

FlatFieldnames ==
    <<K_cdcr_number>> \o OptionalFields \o <<K_num_parole_hearings>>

HearingsFieldnames == <<K_cdcr_number, K_inmate_name>> \o HearingFields

(* dict.get(key, default) *)
Get(d, k, default) == IF k \in DOMAIN d THEN d[k] ELSE default

(* The keys export_to_csv subscripts an inmate with. *)
FlatKeys == Range(<<K_cdcr_number>> \o OptionalFields \o <<K_board_of_parole_hearings>>)

FlatRowDictMutant(inmate) ==
    [k \in Range(FlatFieldnames) |->
        IF k = K_num_parole_hearings
        THEN PyInt(Len(SelectSeq(inmate.d[K_board_of_parole_hearings].l, IsDict)))
        ELSE inmate.d[k]]

(* The row dict export_to_csv builds for one inmate. *)
FlatRowDict(inmate) ==
    [k \in Range(FlatFieldnames) |->
        IF k = K_num_parole_hearings
        THEN PyInt(Len(inmate.d[K_board_of_parole_hearings].l))
        ELSE inmate.d[k]]

(* The loop of export_to_csv from the i-th inmate on; a subscript of a    *)
(* missing key raises KeyError with the rows so far written.              *)
RECURSIVE FlatLoop(_, _, _)
FlatLoop(l, i, rows) ==
    IF i > Len(l) THEN [status |-> "return", rows |-> rows]
    ELSE IF ~(IsDict(l[i]) /\ FlatKeys \subseteq DOMAIN l[i].d
              /\ IsList(l[i].d[K_board_of_parole_hearings]))
         THEN [status |-> "raise", rows |-> rows]
    ELSE FlatLoop(l, i + 1, Append(rows, CsvRow(FlatFieldnames, FlatRowDict(l[i]))))

StoreDecodedMutant(hs, j, decoded) == [hs EXCEPT ![j] = decoded]

(* `hearing = json.loads(hearing)` binds the loop's local name: the list  *)
(* keeps the text it held.                                                *)
StoreDecoded(hs, j, decoded) == hs

HearingRowDictMutant(inmate, hearing) ==
    [k \in Range(HearingsFieldnames) |->
        IF k = K_cdcr_number THEN inmate.d[K_cdcr_number]
        ELSE IF k = K_inmate_name THEN inmate.d[K_name]
        ELSE IF k = K_status THEN Get(hearing.d, K_action, PyStr(<<>>))
        ELSE Get(hearing.d, k, PyStr(<<>>))]

(* The row dict export_parole_hearings_to_csv builds for one hearing. *)
HearingRowDict(inmate, hearing) ==
    [k \in Range(HearingsFieldnames) |->
        IF k = K_cdcr_number THEN inmate.d[K_cdcr_number]
        ELSE IF k = K_inmate_name THEN inmate.d[K_name]
        ELSE Get(hearing.d, k, PyStr(<<>>))]

(* The inner loop over one inmate's hearings hs from the j-th on.  A text *)
(* json.loads cannot read raises, and so does .get on a value that is no  *)
(* dict; the rows written before stay in the file.                        *)
RECURSIVE HearingsLoop(_, _, _, _)
HearingsLoop(inmate, hs, j, rows) ==
    IF j > Len(hs) THEN [status |-> "return", rows |-> rows, hs |-> hs]
    ELSE
        LET parsed == IF IsStr(hs[j]) THEN JsonLoads(hs[j].s) ELSE JsonOk(hs[j], 0)
        IN  IF ~parsed.ok \/ ~IsDict(parsed.val)
            THEN [status |-> "raise", rows |-> rows, hs |-> hs]
            ELSE HearingsLoop(inmate,
                              IF IsStr(hs[j]) THEN StoreDecoded(hs, j, parsed.val) ELSE hs,
                              j + 1,
                              Append(rows, CsvRow(HearingsFieldnames,
                                                  HearingRowDict(inmate, parsed.val))))

(* The outer loop over the inmates l from the i-th on; l is the list as   *)
(* it stands in memory.                                                   *)
RECURSIVE InmatesLoop(_, _, _)
InmatesLoop(l, i, rows) ==
    IF i > Len(l) THEN [status |-> "return", rows |-> rows, list |-> l]
    ELSE IF ~(IsDict(l[i]) /\ K_board_of_parole_hearings \in DOMAIN l[i].d
              /\ IsList(l[i].d[K_board_of_parole_hearings]))
         THEN [status |-> "raise", rows |-> rows, list |-> l]
    ELSE
        LET hs == l[i].d[K_board_of_parole_hearings].l
            needName == hs # <<>>
        IN  IF needName /\ {K_cdcr_number, K_name} \ DOMAIN l[i].d # {}
            THEN [status |-> "raise", rows |-> rows, list |-> l]
            ELSE
                LET r == HearingsLoop(l[i], hs, 1, rows)
                    l2 == [l EXCEPT ![i] =
                             PyDict([l[i].d EXCEPT ![K_board_of_parole_hearings] = PyList(r.hs)])]
                IN  IF r.status = "raise"
                    THEN [status |-> "raise", rows |-> r.rows, list |-> l2]
                    ELSE InmatesLoop(l2, i + 1, r.rows)

---------------------------------------------------------------------------
(* The inputs. *)

Seqs(S, n) == UNION {[1..k -> S] : k \in 0..n}

CdcrNumbers == {PyStr(<<"A","1">>), PyStr(<<"B","2">>)}

(* The filename a caller supplies. *)
GivenName == <<"out">>

(* Hearings as a page driver may hand them over: a dict with every field, *)
(* a dict with a None value and missing keys, the serialized text of a    *)
(* dict, a text that is no JSON, and the JSON text of a value that is no  *)
(* dict.                                                                  *)
HearingFull ==
    PyDict((K_date :> PyStr(<<"d","1">>)) @@ (K_action :> PyStr(<<"a">>))
             @@ (K_status :> PyStr(<<"s">>)) @@ (K_outcome :> PyStr(<<"o">>)))
HearingPartial ==
    PyDict((K_date :> PyNone) @@ (K_action :> PyStr(<<"b">>)))
HearingText ==
    PyStr(<<"{", Quote,"d","a","t","e",Quote, ":", " ", Quote,"d","2",Quote, ",", " ",
            Quote,"o","u","t","c","o","m","e",Quote, ":", " ", "n","u","l","l", "}">>)
HearingNotJson == PyStr(<<"n","/","a">>)
HearingNotDict == PyStr(<<"n","u","l","l">>)

Inmate(cdcr_number, name, age, hearings) ==
    PyDict([SearchCdcrNumber(cdcr_number).d EXCEPT
              ![K_name] = name, ![K_age] = age,
              ![K_board_of_parole_hearings] = PyList(hearings)])

DoeJohn == PyStr(<<"D","o","e",","," ","J">>)

SampleRecords ==
    { SearchCdcrNumber(PyStr(<<"A","1">>)),
      Inmate(PyStr(<<"D","5">>), DoeJohn, PyStr(<<"4","5">>), <<>>),
      Inmate(PyStr(<<"A","1">>), PyStr(<<"N","o","n","e">>), PyNone,
             <<HearingFull, HearingPartial>>),
      Inmate(PyStr(<<"B","2">>), PyNone, PyNone, <<HearingText, HearingFull>>),
      Inmate(PyStr(<<"B","2">>), DoeJohn, PyNone, <<HearingFull, HearingNotJson>>),
      Inmate(PyStr(<<"A","1">>), PyNone, PyNone, <<HearingNotDict>>) }

CallerLists == {PyList(l) : l \in Seqs(SampleRecords, MaxRecords)}

---------------------------------------------------------------------------
(* The operations. *)

(* self.timestamp, as the f-string of a default filename reads it. *)
NameStampMutant == Strftime(clock)

NameStamp == timestamp

(* What `results` is after `if results is None: results = self.results`. *)
Chosen(resArg) == IF IsNone(resArg) THEN results ELSE resArg

(* The list objects after a call that left the passed list as `after`. *)
Aliased(resArg, after) ==
    /\ results' = IF IsNone(resArg) THEN after ELSE results
    /\ caller' = IF IsNone(resArg) THEN caller ELSE after

(* Time passes between two calls. *)
Tick ==
    /\ clock < MaxClock
    /\ clock' = clock + 1
    /\ UNCHANGED <<timestamp, results, run, runTs, files, caller, ret>>

(* search_multiple_cdcr_numbers(cdcr_numbers): a batch, which starts a run. *)
SearchMultipleCdcrNumbers(cdcr_numbers, failAt) ==
    LET r == SearchLoop(cdcr_numbers, failAt, 1, <<>>, clock)
        returned == IF r.status = "return" THEN PyList(r.list) ELSE PyList(<<>>)
    IN
    /\ run < MaxRuns
    /\ r.clk <= MaxClock
    /\ clock' = r.clk
    /\ results' = IF r.status = "return" THEN PyList(r.list) ELSE results
    /\ run' = run + 1
    /\ runTs' = timestamp
    /\ ret' = [NoCall EXCEPT !.op = "search_multiple_cdcr_numbers",
                             !.status = r.status,
                             !.ids = cdcr_numbers,
                             !.list = returned, !.after = returned]
    /\ files' = [f \in DOMAIN files |-> EarlierRun]
    /\ UNCHANGED <<timestamp, caller>>

(* export_to_csv(results, filename) *)
ExportToCsv(resArg, fnArg) ==
    LET list == Chosen(resArg)
        filename == IF fnArg = NoName THEN DefaultCsvName(NameStamp) ELSE fnArg
        r == FlatLoop(list.l, 1, <<>>)
    IN  /\ files' = (filename :> ThisRun) @@ files
        /\ Aliased(resArg, list)
        /\ ret' = [NoCall EXCEPT !.op = "export_to_csv", !.status = r.status,
                                 !.name = filename, !.list = list, !.after = list,
                                 !.written = CsvFile(FlatFieldnames, r.rows)]
        /\ UNCHANGED <<clock, timestamp, run, runTs>>

(* export_to_json(results, filename) *)
ExportToJson(resArg, fnArg) ==
    LET list == Chosen(resArg)
        filename == IF fnArg = NoName THEN DefaultJsonName(NameStamp) ELSE fnArg
    IN  /\ files' = (filename :> ThisRun) @@ files
        /\ Aliased(resArg, list)
        /\ ret' = [NoCall EXCEPT !.op = "export_to_json",
                                 !.name = filename, !.list = list, !.after = list,
                                 !.written = JsonFile(JsonDumps(list, 0))]
        /\ UNCHANGED <<clock, timestamp, run, runTs>>

(* export_parole_hearings_to_csv(results, filename) *)
ExportParoleHearingsToCsv(resArg, fnArg) ==
    LET list == Chosen(resArg)
        filename == IF fnArg = NoName THEN DefaultHearingsName(NameStamp) ELSE fnArg
        r == InmatesLoop(list.l, 1, <<>>)
    IN  /\ files' = (filename :> ThisRun) @@ files
        /\ Aliased(resArg, PyList(r.list))
        /\ ret' = [NoCall EXCEPT !.op = "export_parole_hearings_to_csv",
                                 !.status = r.status, !.name = filename,
                                 !.list = list, !.after = PyList(r.list),
                                 !.written = CsvFile(HearingsFieldnames, r.rows)]
        /\ UNCHANGED <<clock, timestamp, run, runTs>>

(* print_summary(results): it subscripts each inmate as export_to_csv does *)
(* and writes to the terminal only.                                       *)
PrintSummary(resArg) ==
    LET list == Chosen(resArg)
        r == FlatLoop(list.l, 1, <<>>)
    IN  /\ Aliased(resArg, list)
        /\ ret' = [NoCall EXCEPT !.op = "print_summary", !.status = r.status,
                                 !.list = list, !.after = list]
        /\ UNCHANGED <<clock, timestamp, run, runTs, files>>

---------------------------------------------------------------------------
(* The scraper through its runs: constructions, batches whose lookups may *)
(* raise, and exports of self.results under default and given filenames.  *)

(* The scraper as __init__ leaves it, the clock at its origin. *)
Init ==
    /\ clock = 0
    /\ timestamp = Strftime(clock)
    /\ results = PyList(<<>>)
    /\ run = 0
    /\ runTs = timestamp
    /\ files = <<>>
    /\ caller = PyList(<<>>)
    /\ ret = [NoCall EXCEPT !.op = "__init__"]

Next ==
    \/ Tick
    \/ \E ids \in Seqs(CdcrNumbers, MaxIds) :
         \E failAt \in 0..Len(ids) : SearchMultipleCdcrNumbers(ids, failAt)
    \/ \E fn \in {NoName, GivenName} : ExportToCsv(PyNone, fn)
    \/ \E fn \in {NoName, GivenName} : ExportToJson(PyNone, fn)
    \/ \E fn \in {NoName, GivenName} : ExportParoleHearingsToCsv(PyNone, fn)
    \/ PrintSummary(PyNone)

Spec == Init /\ [][Next]_vars

(* The exporters as functions of the record list: the caller holds any    *)
(* list of sample records and passes it, or passes nothing.               *)

InitExport ==
    /\ clock = 0
    /\ timestamp = Strftime(0)
    /\ results = PyList(<<>>)
    /\ run = 0
    /\ runTs = Strftime(0)
    /\ files = <<>>
    /\ caller \in CallerLists
    /\ ret = [NoCall EXCEPT !.op = "__init__"]

NextExport ==
    \/ \E a \in {PyNone, caller} : ExportToCsv(a, GivenName)
    \/ \E a \in {PyNone, caller} : ExportToJson(a, GivenName)
    \/ \E a \in {PyNone, caller} : ExportParoleHearingsToCsv(a, GivenName)
    \/ \E a \in {PyNone, caller} : PrintSummary(a)

ExportSpec == InitExport /\ [][NextExport]_vars

---------------------------------------------------------------------------
(* What the claims speak of. *)

ExportOps == {"export_to_csv", "export_to_json", "export_parole_hearings_to_csv"}
ReadOps == ExportOps \cup {"print_summary"}

Hearings(inmate) == inmate.d[K_board_of_parole_hearings].l

(* The number a decimal text stands for. *)
RECURSIVE DecimalValue(_)
DecimalValue(text) ==
    IF text = <<>> THEN 0
    ELSE 10 * DecimalValue(SubSeq(text, 1, Len(text) - 1))
           + (CHOOSE n \in 0..9 : Digits[n + 1] = text[Len(text)])

(* The text a value is to be shown as in a CSV cell: empty when absent. *)
ShownText(v) == IF IsNone(v) THEN <<>> ELSE v.s

(* A hearing entry as a key-value bag, when it is one or decodes to one. *)
Decoded(h) == IF IsStr(h) THEN JsonLoads(h.s).val ELSE h

IsMalformed(h) ==
    IF IsStr(h) THEN ~JsonLoads(h.s).ok \/ ~IsDict(JsonLoads(h.s).val)
    ELSE ~IsDict(h)

HasMalformed(list) ==
    \E i \in 1..Len(list.l) :
        \E j \in 1..Len(Hearings(list.l[i])) : IsMalformed(Hearings(list.l[i])[j])

(* The number of hearings of the records before the i-th. *)
RECURSIVE RowsBefore(_, _)
RowsBefore(l, i) ==
    IF i <= 1 THEN 0 ELSE RowsBefore(l, i - 1) + Len(Hearings(l[i - 1]))

(* C1: a batch that returns gives one record per input identifier, in the *)
(* input's order, the i-th record carrying the i-th identifier, repeated   *)
(* identifiers included.                                                  *)
C1_OneRecordPerIdentifier ==
    (ret.op = "search_multiple_cdcr_numbers" /\ ret.status = "return") =>
        /\ Len(ret.list.l) = Len(ret.ids)
        /\ \A i \in 1..Len(ret.ids) :
              /\ K_cdcr_number \in DOMAIN ret.list.l[i].d
              /\ IsStr(ret.list.l[i].d[K_cdcr_number])
              /\ ret.list.l[i].d[K_cdcr_number] = ret.ids[i]

C1_Witness ==
    /\ ret.op = "search_multiple_cdcr_numbers"
    /\ ret.status = "return"
    /\ Len(ret.ids) = 2
    /\ ret.ids[1] = ret.ids[2]
    /\ Len(ret.list.l) = 2

C3_MalformedHearingFailsExport ==
    (ret.op \in ExportOps /\ HasMalformed(ret.list)) => ret.status = "raise"

(* C4: the flat CSV has the eight columns in their fixed order and one    *)
(* row per record in the list's order; the count column is the length of  *)
(* the record's hearings list and the other columns are the record's      *)
(* field values (empty when absent).                                      *)
C4_FlatCsvRows ==
    (ret.op = "export_to_csv" /\ ret.status = "return") =>
        /\ ret.written.header =
              <<K_cdcr_number, K_name, K_age, K_admission_date, K_current_location,
                K_commitment_county, K_parole_eligible_date, K_num_parole_hearings>>
        /\ Len(ret.written.rows) = Len(ret.list.l)
        /\ \A i \in 1..Len(ret.list.l) :
              LET row == ret.written.rows[i]
                  inmate == ret.list.l[i]
              IN  /\ Len(row) = 8
                  /\ \A c \in 1..7 : row[c] = ShownText(inmate.d[ret.written.header[c]])
                  /\ row[8] # <<>>
                  /\ DecimalValue(row[8]) = Len(Hearings(inmate))

C4_Witness ==
    /\ ret.op = "export_to_csv"
    /\ ret.status = "return"
    /\ Len(ret.written.rows) = 2
    /\ ret.written.rows[1][2] = DoeJohn.s
    /\ ret.written.rows[1][8] = <<"0">>
    /\ ret.written.rows[2][2] = <<>>
    /\ ret.written.rows[2][8] = <<"2">>

(* C5: the hearings CSV of an export that returns has one row per         *)
(* (record, hearing) pair, by record and then by hearing, each row the    *)
(* record's cdcr_number and name with the hearing's date, action, status  *)
(* and outcome; its rows number the sum of the hearings lists' lengths.   *)
C5_HearingsCsvRows ==
    (ret.op = "export_parole_hearings_to_csv" /\ ret.status = "return") =>
        LET l == ret.list.l
            rows == ret.written.rows
        IN  /\ ret.written.header =
                  <<K_cdcr_number, K_inmate_name, K_date, K_action, K_status, K_outcome>>
            /\ Len(rows) = RowsBefore(l, Len(l) + 1)
            /\ \A i \in 1..Len(l) : \A j \in 1..Len(Hearings(l[i])) :
                  LET row == rows[RowsBefore(l, i) + j]
                      h == Decoded(Hearings(l[i])[j]).d
                  IN  /\ Len(row) = 6
                      /\ row[1] = ShownText(l[i].d[K_cdcr_number])
                      /\ row[2] = ShownText(l[i].d[K_name])
                      /\ \A c \in 1..4 :
                            row[2 + c] = IF HearingFields[c] \in DOMAIN h
                                         THEN ShownText(h[HearingFields[c]])
                                         ELSE <<>>

C5_Witness ==
    /\ ret.op = "export_parole_hearings_to_csv"
    /\ ret.status = "return"
    /\ Len(ret.list.l) = 2
    /\ Hearings(ret.list.l[1]) = <<HearingText, HearingFull>>
    /\ Hearings(ret.list.l[2]) = <<HearingFull, HearingPartial>>
    /\ Len(ret.written.rows) = 4

(* C6: an absent field, a None value or a missing key, is the empty text  *)
(* in both CSV files and null in the JSON document, its key never left    *)
(* out: every JSON record has the eight keys and every hearing object the *)
(* four.                                                                  *)
C6_AbsentFieldsKeepTheirPlace ==
    /\ (ret.op = "export_to_csv" /\ ret.status = "return") =>
          \A i \in 1..Len(ret.list.l) : \A c \in 1..7 :
              IsNone(Get(ret.list.l[i].d, FlatFieldnames[c], PyNone))
                  => ret.written.rows[i][c] = <<>>
    /\ (ret.op = "export_parole_hearings_to_csv" /\ ret.status = "return") =>
          \A i \in 1..Len(ret.list.l) : \A j \in 1..Len(Hearings(ret.list.l[i])) :
              \A c \in 1..4 :
                  IsNone(Get(Decoded(Hearings(ret.list.l[i])[j]).d, HearingFields[c], PyNone))
                      => ret.written.rows[RowsBefore(ret.list.l, i) + j][2 + c] = <<>>
    /\ (ret.op = "export_to_json" /\ ret.status = "return") =>
          LET doc == JsonLoads(ret.written.text) IN
          /\ doc.ok
          /\ IsList(doc.val)
          /\ \A i \in 1..Len(doc.val.l) :
                /\ FlatKeys \subseteq DOMAIN doc.val.l[i].d
                /\ \A j \in 1..Len(Hearings(doc.val.l[i])) :
                      IsDict(Hearings(doc.val.l[i])[j]) =>
                          Range(HearingFields) \subseteq DOMAIN Hearings(doc.val.l[i])[j].d

(* C7: the document export_to_json writes parses back to a list equal to  *)
(* the exported one.                                                      *)
C7_JsonRoundTrip ==
    ret.op = "export_to_json" =>
        /\ ret.status = "return"
        /\ JsonLoads(ret.written.text).ok
        /\ JsonLoads(ret.written.text).val = ret.list

C7_Witness ==
    /\ ret.op = "export_to_json"
    /\ Len(ret.list.l) = 2
    /\ Hearings(ret.list.l[1]) = <<HearingText, HearingFull>>
    /\ ret.list.l[2].d[K_name] = DoeJohn
    /\ \E i \in 1..Len(ret.written.text) : ret.written.text[i] = Backslash

(* C8: a default-named file an earlier run left is never written again by *)
(* a later run that a batch started.                                      *)
C8_NewRunNewFiles ==
    [][\A f \in DOMAIN files :
          (IsDefaultName(f) /\ files[f] = EarlierRun /\ run >= 2)
              => files'[f] = EarlierRun]_vars

(* C9: the default-named files written during a run, and the name the     *)
(* last export returned when none was supplied, all embed the timestamp   *)
(* as it stood when the run started.                                      *)
C9_OneTimestampPerRun ==
    /\ \A f \in DOMAIN files :
          (IsDefaultName(f) /\ files[f] = ThisRun) => f[2] = runTs
    /\ (ret.op \in ExportOps /\ IsDefaultName(ret.name)) => ret.name[2] = runTs

C9_Witness ==
    /\ run >= 1
    /\ Strftime(clock) # runTs
    /\ \A f \in {DefaultCsvName(runTs), DefaultJsonName(runTs), DefaultHearingsName(runTs)} :
          f \in DOMAIN files /\ files[f] = ThisRun
    /\ ret.op = "export_to_json"

(* C10: an export or print_summary call, returning or raising, leaves the *)
(* stored results and the passed list as they were.                       *)
C10_ExportersOnlyRead ==
    [][ret'.op \in ReadOps =>
          /\ results' = results
          /\ caller' = caller
          /\ ret'.after = ret'.list]_vars

C10_Witness ==
    /\ ret.op = "export_parole_hearings_to_csv"
    /\ ret.list = caller
    /\ Len(caller.l) = 2
    /\ Hearings(caller.l[1]) = <<HearingText, HearingFull>>
    /\ Hearings(caller.l[2]) = <<HearingFull, HearingNotJson>>
    /\ ret.status = "raise"
    /\ ret.after = ret.list

===========================================================================
